---- MODULE Spec2Model ----
(***************************************************************************)
(* A model of the Phoenix channel client (src/src/client.rs) and of the    *)
(* messages it builds (src/src/message.rs).                                *)
(*                                                                         *)
(* One Client is shared by concurrent tasks.  Tasks of Writers call        *)
(* join / join_with_payload / leave / send; tasks of Receivers call recv.  *)
(* Every action is one atomic step of one task: a step ends at the next    *)
(* access to shared state (an atomic, a mutex, the transport).             *)
(*                                                                         *)
(* The transport is the environment: a send puts the frame on the wire in  *)
(* FrameParts pieces or fails before the first piece; inbound items        *)
(* arrive at any time; the heartbeat interval may fire whenever a task     *)
(* polls it.                                                               *)
(***************************************************************************)
EXTENDS Integers, Sequences, FiniteSets

(***************************************************************************)
(* Bounds of the model.                                                    *)
(***************************************************************************)
\* width of the id counter in bits (usize in the code)
IdBits == 2
\* events of the environment (calls of join / leave / send, ticks of the heartbeat
\* interval, failing transport writes) with two callers and one receiver
MaxEvents == 3
\* the same events with one caller and one receiver
MaxKeepAliveEvents == 5
\* the same events with one caller and two receivers
MaxRecvEvents == 2
\* items the transport delivers on the read half
MaxInbound == 2
\* the events with one receiver when the peer sends frames of every kind
MaxFrameEvents == 3
\* frames of every kind the transport delivers on the read half
MaxFrames == 3
\* the events with one caller and one receiver when the peer sends
MaxErrorEvents == 3
\* items the transport delivers in those runs
MaxErrorInbound == 1
\* the events with two callers and one receiver under the fair scheduler
MaxLiveEvents == 2
\* the longest JSON array given to the decoder
MaxArrayLen == 10
\* the most parameters in the query of a URI given to the builder
MaxUriParams == 3
\* the events with one receiver whose heartbeats may fail one after the other
MaxHeartbeatEvents == 4
\* items the transport delivers in those runs
MaxHeartbeatInbound == 2

\* the pieces in which the transport puts one frame on the wire
FrameParts == << "head", "tail" >>

IdRange == 2 ^ IdBits

Writers == {"w1", "w2"}
Receivers == {"r1", "r2"}
Tasks == Writers \cup Receivers

\* no task holds the mutex
Unlocked == "unlocked"

(***************************************************************************)
(* Option<T>: None is the empty sequence, Some(x) the sequence <<x>>.      *)
(***************************************************************************)
None == << >>
Some(x) == << x >>

(***************************************************************************)
(* usize::to_string: the decimal digits of n, most significant first.      *)
(***************************************************************************)
Digit == << "0", "1", "2", "3", "4", "5", "6", "7", "8", "9" >>

RECURSIVE IdToString(_)
IdToString(n) ==
    IF n < 10 THEN << Digit[n + 1] >>
    ELSE IdToString(n \div 10) \o << Digit[(n % 10) + 1] >>

(***************************************************************************)
(* Payloads, topics and events the callers pass.                           *)
(***************************************************************************)
MapDefault == "{}"
Payloads == {"{\"some\":\"param\"}"}
Topics == {"miami:weather"}
Events == {"report_emergency"}

(***************************************************************************)
(* ChannelMsg::new: the references are the decimal strings of the ids.     *)
(***************************************************************************)
RefOf(optId) == IF optId = None THEN None ELSE Some(IdToString(optId[1]))

ChannelMsgNew(join_reference, message_reference, topic_name, event_name, payload) ==
    [ join_reference    |-> RefOf(join_reference),
      message_reference |-> RefOf(message_reference),
      topic_name        |-> topic_name,
      event_name        |-> event_name,
      payload           |-> payload ]

\* ChannelMsg::into_err: the message without its payload
IntoErrKeepsPayload(msg) == msg
IntoErr(msg) == [msg EXCEPT !.payload = "()"]

\* the message each operation builds for the id it allocated
JoinMsg(id, topic, payload) == ChannelMsgNew(Some(id), Some(id), topic, "phx_join", payload)
LeaveMsgWithJoinRef(id, topic) ==
    ChannelMsgNew(Some(id), Some(id), topic, "phx_leave", MapDefault)
LeaveMsg(id, topic) == ChannelMsgNew(None, Some(id), topic, "phx_leave", MapDefault)
SendMsg(id, topic, event, payload) == ChannelMsgNew(None, Some(id), topic, event, payload)
HeartbeatMsg(id) == ChannelMsgNew(None, Some(id), "phoenix", "heartbeat", MapDefault)

NoMsg == [ join_reference |-> None, message_reference |-> None,
           topic_name |-> "", event_name |-> "", payload |-> "" ]

(***************************************************************************)
(* The atomics.                                                            *)
(***************************************************************************)
\* AtomicUsize::fetch_add(1): the value returned and the value stored
FetchAddReturnsNew(cur) == (cur + 1) % IdRange
FetchAddReturn(cur) == cur
FetchAddStoresOld(cur) == cur
FetchAddStore(cur) == (cur + 1) % IdRange

\* sent.store(true) at the end of write_msg: the value the flag holds afterwards
SentLeftAsItWas(flag) == flag
SentStoredFalse(flag) == FALSE
SentAfterWrite(flag) == TRUE

\* sent.compare_exchange(true, false): Ok iff the flag was true; the value left
CasOk(flag) == flag = TRUE
CasStoresNothing(flag) == flag
CasStore(flag) == IF flag = TRUE THEN FALSE ELSE flag

(***************************************************************************)
(* State.                                                                  *)
(***************************************************************************)
VARIABLES
    msg_id,     \* Client.msg_id
    sent,       \* Client.sent
    writer,     \* the task holding Client.writer, or Unlocked
    reader,     \* the task holding Client.reader, or Unlocked
    pc,         \* where each task is in its call
    cur,        \* per task: the id it allocated, the message it writes, the pieces written
    returned,   \* history: the call that returned last, and what it returned
    wire,       \* the pieces written to the write half, in order
    inbound,    \* items the read half holds, not yet taken by a recv
    allocs,     \* history: the ids next_id returned, in order
    lockOrder,  \* history: the allocations that took the write-half lock, in order
    delivered,  \* history: the inbound items recv calls took, in order
    since,      \* history: what happened since the last tick was checked
    tick,       \* history: the last tick checked and what it led to
    budget,     \* environment: the events and the inbound items still to come
    pure        \* the pure function under evaluation: its input and its results

vars == << msg_id, sent, writer, reader, pc, cur, returned, wire, inbound,
           allocs, lockOrder, delivered, since, tick, budget, pure >>

NoCur == [ op |-> "none", id |-> 0, seq |-> 0, msg |-> NoMsg, part |-> 0 ]
NoReturn == [ task |-> Unlocked, kind |-> "none", id |-> 0, seq |-> 0,
              msg |-> NoMsg, item |-> 0, frame |-> "none" ]
NoSince == [ wrote |-> FALSE, any |-> FALSE, ret |-> FALSE ]
\* no pure function is under evaluation
NoPure == [ fn |-> "none" ]
NoTick == [ n |-> 0, by |-> Unlocked, flagWas |-> FALSE, flagLeft |-> FALSE,
            wrote |-> FALSE, any |-> FALSE, ret |-> FALSE, waits |-> FALSE,
            issued |-> 0, seq |-> 0, written |-> 0, failed |-> FALSE ]

\* Client::new, what the environment is going to do, and the pure function to evaluate
InitOf(events, arrivals, inputs) ==
    /\ msg_id = 0
    /\ sent = FALSE
    /\ writer = Unlocked
    /\ reader = Unlocked
    /\ pc = [t \in Tasks |-> "idle"]
    /\ cur = [t \in Tasks |-> NoCur]
    /\ returned = NoReturn
    /\ wire = << >>
    /\ inbound = << >>
    /\ allocs = << >>
    /\ lockOrder = << >>
    /\ delivered = << >>
    /\ since = NoSince
    /\ tick = NoTick
    /\ budget = [ events |-> events, inbound |-> arrivals ]
    /\ pure \in inputs

\* Client::new, and what the environment is going to do
InitWith(events, arrivals) == InitOf(events, arrivals, {NoPure})


(***************************************************************************)
(* next_id followed by ChannelMsg::new: task t allocates an id and builds  *)
(* the message msgs[id] it is going to write.                              *)
(***************************************************************************)
NextId(t, op, msgs) ==
    LET id == FetchAddReturn(msg_id) IN
    /\ msg_id' = FetchAddStore(msg_id)
    /\ allocs' = Append(allocs, id)
    /\ cur' = [cur EXCEPT ![t] = [ op |-> op, id |-> id, seq |-> Len(allocs) + 1,
                                   msg |-> msgs[id], part |-> 0 ]]
    /\ pc' = [pc EXCEPT ![t] = "lock"]

CallStarts(w) ==
    /\ w \in Writers
    /\ pc[w] = "idle"
    /\ budget.events > 0
    /\ budget' = [budget EXCEPT !.events = @ - 1]
    /\ UNCHANGED << sent, writer, reader, returned, wire, inbound, lockOrder,
                    delivered, since, tick, pure >>

\* Client::join: join_with_payload with the default map
Join(w, topic) ==
    /\ CallStarts(w)
    /\ NextId(w, "join", [id \in 0 .. IdRange - 1 |-> JoinMsg(id, topic, MapDefault)])

\* Client::join_with_payload, up to the write
JoinWithPayload(w, topic, payload) ==
    /\ CallStarts(w)
    /\ NextId(w, "join", [id \in 0 .. IdRange - 1 |-> JoinMsg(id, topic, payload)])

\* Client::leave, up to the write
Leave(w, topic) ==
    /\ CallStarts(w)
    /\ NextId(w, "leave", [id \in 0 .. IdRange - 1 |-> LeaveMsg(id, topic)])

\* Client::send, up to the write
Send(w, topic, event, payload) ==
    /\ CallStarts(w)
    /\ NextId(w, "send", [id \in 0 .. IdRange - 1 |-> SendMsg(id, topic, event, payload)])

(***************************************************************************)
(* Client::write_msg, called by join/leave/send and by the heartbeat.      *)
(***************************************************************************)
\* tokio Mutex: lock() completes only when no task holds the mutex
WriterNeverBusy == TRUE
WriterSharesReaderLock == writer = Unlocked /\ reader = Unlocked
WriterRemembersFailure == writer = Unlocked /\ returned.kind # "send_err"
CanLockWriter == writer = Unlocked
ReaderNeverBusy == TRUE
CanLockReader == reader = Unlocked

\* self.writer.lock().await, then .send(Text(msg_json)) starts: the first piece of
\* the frame goes on the wire (taking the lock and the first write are one step:
\* no other task can act on the write half in between)
WriteLockInIdOrder(t) ==
    /\ pc[t] = "lock"
    /\ CanLockWriter
    /\ \A u \in Tasks : pc[u] = "lock" => cur[t].seq <= cur[u].seq
    /\ writer' = t
    /\ lockOrder' = Append(lockOrder, cur[t].seq)
    /\ wire' = Append(wire, [ op |-> cur[t].op, seq |-> cur[t].seq, msg |-> cur[t].msg,
                              part |-> FrameParts[1] ])
    /\ cur' = [cur EXCEPT ![t].part = 1]
    /\ pc' = [pc EXCEPT ![t] = "send"]
    /\ UNCHANGED << msg_id, sent, reader, returned, inbound, allocs,
                    delivered, since, tick, budget, pure >>

WriteLock(t) ==
    /\ pc[t] = "lock"
    /\ CanLockWriter
    /\ writer' = t
    /\ lockOrder' = Append(lockOrder, cur[t].seq)
    /\ wire' = Append(wire, [ op |-> cur[t].op, seq |-> cur[t].seq, msg |-> cur[t].msg,
                              part |-> FrameParts[1] ])
    /\ cur' = [cur EXCEPT ![t].part = 1]
    /\ pc' = [pc EXCEPT ![t] = "send"]
    /\ UNCHANGED << msg_id, sent, reader, returned, inbound, allocs,
                    delivered, since, tick, budget, pure >>

\* the holder of the lock of the write half after a piece is written: the guard
\* is a temporary of the statement and is dropped when the send completes
WriterKeptAfterSend(holder, last) == holder
WriterAfterPiece(holder, last) == IF last THEN Unlocked ELSE holder

\* .send(..).await goes on: the next piece of the frame goes on the wire; with the
\* last piece the send completes and the guard of the lock is dropped
WritePiece(t) ==
    /\ pc[t] = "send"
    /\ LET part == cur[t].part + 1
           last == part = Len(FrameParts)
       IN
       /\ wire' = Append(wire, [ op |-> cur[t].op, seq |-> cur[t].seq,
                                 msg |-> cur[t].msg, part |-> FrameParts[part] ])
       /\ cur' = [cur EXCEPT ![t].part = part]
       /\ writer' = WriterAfterPiece(writer, last)
       /\ pc' = [pc EXCEPT ![t] = IF last THEN "store" ELSE "send"]
       /\ since' = IF last
                   THEN [since EXCEPT !.any = TRUE,
                                      !.wrote = @ \/ t \in Writers]
                   ELSE since
       /\ tick' = IF last /\ t \in Receivers
                  THEN [tick EXCEPT !.written = @ + 1]
                  ELSE tick
    /\ UNCHANGED << msg_id, sent, reader, returned, inbound, allocs, lockOrder,
                    delivered, budget, pure >>

\* `?` in next_msg returns while the future `receive` is pending: the future is
\* dropped, and the items the read half holds stay in the stream
ReceiveFutureTakesItem(items) == IF Len(items) = 0 THEN items ELSE Tail(items)
ReceiveFutureDropped(items) == items

\* self.writer.lock().await, then the send fails with nothing written: Error::Send
\* with msg.into_err(); `?` returns from write_msg and from its caller, dropping
\* the guards they hold
WriteFails(t) ==
    /\ pc[t] = "lock"
    /\ CanLockWriter
    /\ budget.events > 0
    /\ budget' = [budget EXCEPT !.events = @ - 1]
    /\ writer' = Unlocked
    /\ lockOrder' = Append(lockOrder, cur[t].seq)
    /\ reader' = IF t \in Receivers THEN Unlocked ELSE reader
    /\ returned' = [ task |-> t, kind |-> "send_err", id |-> cur[t].id,
                     seq |-> cur[t].seq, msg |-> IntoErr(cur[t].msg), item |-> 0,
                     frame |-> "none" ]
    /\ tick' = IF t \in Receivers THEN [tick EXCEPT !.failed = TRUE] ELSE tick
    /\ pc' = [pc EXCEPT ![t] = "idle"]
    /\ cur' = [cur EXCEPT ![t] = NoCur]
    /\ inbound' = IF t \in Receivers THEN ReceiveFutureDropped(inbound) ELSE inbound
    /\ UNCHANGED << msg_id, sent, wire, allocs, delivered, since, pure >>

\* self.sent.store(true); Ok(()): join/leave/send return Ok(id), the heartbeat
\* returns to the loop of next_msg
WriteStore(t) ==
    /\ pc[t] = "store"
    /\ sent' = SentAfterWrite(sent)
    /\ IF t \in Writers
       THEN /\ returned' = [ task |-> t, kind |-> "ok", id |-> cur[t].id,
                             seq |-> cur[t].seq, msg |-> NoMsg, item |-> 0,
                             frame |-> "none" ]
            /\ pc' = [pc EXCEPT ![t] = "idle"]
            /\ since' = [since EXCEPT !.ret = TRUE]
       ELSE /\ pc' = [pc EXCEPT ![t] = "select"]
            /\ UNCHANGED << returned, since >>
    /\ cur' = [cur EXCEPT ![t] = NoCur]
    /\ UNCHANGED << msg_id, writer, reader, wire, inbound, allocs, lockOrder,
                    delivered, tick, budget, pure >>

(***************************************************************************)
(* Client::recv and Client::next_msg.                                      *)
(***************************************************************************)
\* recv is called and waits for the lock of the read half
RecvCall(r) ==
    /\ r \in Receivers
    /\ pc[r] = "idle"
    /\ pc' = [pc EXCEPT ![r] = "rlock"]
    /\ UNCHANGED << msg_id, sent, writer, reader, cur, returned, wire, inbound,
                    allocs, lockOrder, delivered, since, tick, budget,
                    pure >>

\* self.reader.lock().await
ReadLock(r) ==
    /\ pc[r] = "rlock"
    /\ CanLockReader
    /\ reader' = r
    /\ pc' = [pc EXCEPT ![r] = "select"]
    /\ UNCHANGED << msg_id, sent, writer, cur, returned, wire, inbound, allocs,
                    lockOrder, delivered, since, tick, budget,
                    pure >>

\* select returns Left: the future `receive` has not resolved and is polled again
\* in the next round of the loop, so the items the read half holds stay as they are
PendingReadDropped(items) == IF Len(items) = 0 THEN items ELSE Tail(items)
PendingReadKept(items) == items

\* select: the interval ticks first; check_and_send_heartbeat does the
\* compare_exchange on the sent flag
HeartbeatTick(r) ==
    /\ pc[r] = "select"
    /\ budget.events > 0
    /\ budget' = [budget EXCEPT !.events = @ - 1]
    /\ sent' = CasStore(sent)
    /\ pc' = [pc EXCEPT ![r] = IF CasOk(sent) THEN "select" ELSE "hb_id"]
    /\ tick' = [ n |-> tick.n + 1, by |-> r, flagWas |-> sent, flagLeft |-> sent',
                 wrote |-> since.wrote, any |-> since.any, ret |-> since.ret,
                 waits |-> pc'[r] = "select",
                 issued |-> 0, seq |-> 0, written |-> 0, failed |-> FALSE ]
    /\ since' = NoSince
    /\ inbound' = PendingReadKept(inbound)
    /\ UNCHANGED << msg_id, writer, reader, cur, returned, wire, allocs,
                    lockOrder, delivered, pure >>

\* check_and_send_heartbeat, Err branch: next_id and the heartbeat message
HeartbeatId(r) ==
    /\ pc[r] = "hb_id"
    /\ NextId(r, "heartbeat", [id \in 0 .. IdRange - 1 |-> HeartbeatMsg(id)])
    /\ tick' = [tick EXCEPT !.issued = @ + 1, !.seq = Len(allocs) + 1]
    /\ UNCHANGED << sent, writer, reader, returned, wire, inbound, lockOrder,
                    delivered, since, budget, pure >>

\* The items the read half yields: None at the end of the stream ("end"), Some(Err)
\* for a read error ("error"), or Some(Ok(frame)) for a frame: a Text frame holding
\* a channel message ("text") or something else ("text_undecodable"), a Binary
\* frame whose bytes are the UTF-8 text of a channel message ("binary") or are not
\* UTF-8 at all ("binary_not_utf8"), a Close frame without a reason ("close").
FrameKinds == {"text", "text_undecodable", "binary", "binary_not_utf8", "close",
               "error", "end"}

\* the frame is a tungstenite::Message::Text
IsTextFrame(kind) == kind \in {"text", "text_undecodable"}

\* msg.into_text(): a Text frame gives its string, a Binary frame its bytes when
\* they are UTF-8, a Close frame its reason (empty when there is none); it fails
\* only on bytes that are not UTF-8
IntoTextOk(kind) == kind \in {"text", "text_undecodable", "binary", "close"}

\* serde_json::from_str::<ChannelMsg<P>>(txt) on the string into_text gave
FromStrOk(kind) == kind \in {"text", "binary"}

\* what recv returns for an item of the read half
RecvResult(item) ==
    CASE item.kind = "end"       -> "disconnected"
      [] item.kind = "error"     -> "recv_err"
      [] ~IntoTextOk(item.kind)  -> "type_err"
      [] ~FromStrOk(item.kind)   -> "deser_err"
      [] OTHER                   -> "message"

\* select: the stream yields first; next_msg returns and drops the guard.  The end
\* of the stream stays the end: every later recv finds it again
RecvNext(r) ==
    /\ pc[r] = "select"
    /\ inbound # << >>
    /\ LET item == Head(inbound) IN
       /\ inbound' = IF item.kind = "end" THEN inbound ELSE Tail(inbound)
       /\ delivered' = IF item.kind = "end" THEN delivered ELSE Append(delivered, item.n)
       /\ returned' = [ task |-> r, kind |-> RecvResult(item), id |-> 0, seq |-> 0,
                        msg |-> NoMsg, item |-> item.n, frame |-> item.kind ]
    /\ reader' = Unlocked
    /\ pc' = [pc EXCEPT ![r] = "idle"]
    /\ UNCHANGED << msg_id, sent, writer, cur, wire, allocs, lockOrder, since,
                    tick, budget, pure >>

(***************************************************************************)
(* The transport's read half.                                              *)
(***************************************************************************)
\* the items of the runs that are not about the kinds of frames
InboundKinds == {"text", "error", "end"}

Arrive(kind) ==
    /\ budget.inbound > 0
    /\ \A i \in 1..Len(inbound) : inbound[i].kind # "end"
    /\ budget' = [budget EXCEPT !.inbound = @ - 1]
    /\ inbound' = Append(inbound, [ n |-> Len(delivered) + Len(inbound) + 1,
                                    kind |-> kind ])
    /\ UNCHANGED << msg_id, sent, writer, reader, pc, cur, returned, wire, allocs,
                    lockOrder, delivered, since, tick, pure >>

(***************************************************************************)
(* The specifications: the callers W and the receivers R share one Client. *)
(***************************************************************************)
Calls(W) ==
    \/ \E w \in W, topic \in Topics : Join(w, topic)
    \/ \E w \in W, topic \in Topics, payload \in Payloads :
           JoinWithPayload(w, topic, payload)
    \/ \E w \in W, topic \in Topics : Leave(w, topic)
    \/ \E w \in W, topic \in Topics, event \in Events, payload \in Payloads :
           Send(w, topic, event, payload)

Writes(T) ==
    \/ \E t \in T : WriteLock(t)
    \/ \E t \in T : WritePiece(t)
    \/ \E t \in T : WriteFails(t)
    \/ \E t \in T : WriteStore(t)

Receives(R) ==
    \/ \E r \in R : RecvCall(r)
    \/ \E r \in R : ReadLock(r)
    \/ \E r \in R : HeartbeatTick(r)
    \/ \E r \in R : HeartbeatId(r)

Reads(R, kinds) ==
    \/ \E r \in R : RecvNext(r)
    \/ \E kind \in kinds : Arrive(kind)

\* two callers and one receiver; the peer sends nothing
Init == InitWith(MaxEvents, 0)
Next ==
    \/ Calls({"w1", "w2"})
    \/ Writes({"w1", "w2", "r1"})
    \/ Receives({"r1"})
Spec == Init /\ [][Next]_vars

\* one caller and one receiver, for longer runs; the peer sends nothing
InitKeepAlive == InitWith(MaxKeepAliveEvents, 0)
NextKeepAlive ==
    \/ Calls({"w1"})
    \/ Writes({"w1", "r1"})
    \/ Receives({"r1"})
SpecKeepAlive == InitKeepAlive /\ [][NextKeepAlive]_vars

\* one caller and two receivers; the peer sends
InitRecv == InitWith(MaxRecvEvents, MaxInbound)
NextRecv ==
    \/ Calls({"w1"})
    \/ Writes({"w1", "r1", "r2"})
    \/ Receives({"r1", "r2"})
    \/ Reads({"r1", "r2"}, InboundKinds)
SpecRecv == InitRecv /\ [][NextRecv]_vars

\* two callers and one receiver under a fair scheduler, with a transport whose
\* writes complete: a task that can take a step of write_msg or allocate the id
\* of its heartbeat takes it in the end.  Calls, ticks and failures of the
\* transport may or may not happen
InitLive == InitWith(MaxLiveEvents, 0)
NextLive ==
    \/ Calls({"w1", "w2"})
    \/ Writes({"w1", "w2", "r1"})
    \/ Receives({"r1"})
FairLive ==
    /\ \A t \in {"w1", "w2", "r1"} :
          /\ WF_vars(WriteLock(t))
          /\ WF_vars(WritePiece(t))
          /\ WF_vars(WriteStore(t))
    /\ WF_vars(HeartbeatId("r1"))
SpecLive == InitLive /\ [][NextLive]_vars /\ FairLive

\* one receiver and no caller; the peer sends frames of every kind
InitFrames == InitWith(MaxFrameEvents, MaxFrames)
NextFrames ==
    \/ Writes({"r1"})
    \/ Receives({"r1"})
    \/ Reads({"r1"}, FrameKinds)
SpecFrames == InitFrames /\ [][NextFrames]_vars

\* one caller and one receiver; the peer sends, and calls follow failed calls
InitErrors == InitWith(MaxErrorEvents, MaxErrorInbound)
NextErrors ==
    \/ Calls({"w1"})
    \/ Writes({"w1", "r1"})
    \/ Receives({"r1"})
    \/ Reads({"r1"}, InboundKinds)
SpecErrors == InitErrors /\ [][NextErrors]_vars

\* one receiver and no caller: every write is the write of a heartbeat; the peer
\* sends
InitHeartbeat == InitWith(MaxHeartbeatEvents, MaxHeartbeatInbound)
NextHeartbeat ==
    \/ Writes({"r1"})
    \/ Receives({"r1"})
    \/ Reads({"r1"}, InboundKinds)
SpecHeartbeat == InitHeartbeat /\ [][NextHeartbeat]_vars

(***************************************************************************)
(* The wire codec: impl Serialize and impl Deserialize for ChannelMsg,     *)
(* with serde_json as serializer and deserializer and P = Map.             *)
(*                                                                         *)
(* A string is a sequence of chunks of characters; Quote and Backslash are *)
(* the characters JSON escapes.  A JSON text is a sequence of chunks too:  *)
(* the punctuation, null, and the chunks of its string literals.  A Map is *)
(* a function from key strings to value strings.                           *)
(***************************************************************************)
Quote == "\""
Backslash == "\\"

\* the number of elements of the wire array
Arity == 5

EmptyMap == [ k \in {} |-> << >> ]

\* serde_json writes a string: escaped, between quotes
RECURSIVE Escape(_)
Escape(str) ==
    IF Len(str) = 0 THEN << >>
    ELSE (IF Head(str) \in {Quote, Backslash}
          THEN << Backslash, Head(str) >>
          ELSE << Head(str) >>) \o Escape(Tail(str))

SerStr(str) == << Quote >> \o Escape(str) \o << Quote >>

\* Option<Cow<str>>: None is written as null
SerOptNoneAsEmptyString(opt) == IF Len(opt) = 0 THEN SerStr(<< >>) ELSE SerStr(opt[1])
SerOpt(opt) == IF Len(opt) = 0 THEN << "null" >> ELSE SerStr(opt[1])

\* the order in which the hash map yields its keys: fixed for a map, otherwise any
IterOrder(map) ==
    CHOOSE ks \in [1..Cardinality(DOMAIN map) -> DOMAIN map] :
        \A i, j \in DOMAIN ks : ks[i] = ks[j] => i = j

RECURSIVE SerPairs(_, _)
SerPairs(map, ks) ==
    IF Len(ks) = 0 THEN << >>
    ELSE SerStr(Head(ks)) \o << ":" >> \o SerStr(map[Head(ks)])
         \o (IF Len(ks) > 1 THEN << "," >> ELSE << >>)
         \o SerPairs(map, Tail(ks))

SerMap(map) == << "{" >> \o SerPairs(map, IterOrder(map)) \o << "}" >>

\* impl Serialize for ChannelMsg: a sequence of the five fields, in this order
Serialize(msg) ==
    << "[" >> \o SerOpt(msg.join_reference)
    \o << "," >> \o SerOpt(msg.message_reference)
    \o << "," >> \o SerStr(msg.topic_name)
    \o << "," >> \o SerStr(msg.event_name)
    \o << "," >> \o SerMap(msg.payload)
    \o << "]" >>

\* the position of the quote that closes a string literal, scanning from j; 0: none
RECURSIVE StrEnd(_, _)
StrEnd(text, j) ==
    IF j > Len(text) THEN 0
    ELSE IF text[j] = Backslash THEN StrEnd(text, j + 2)
    ELSE IF text[j] = Quote THEN j
    ELSE StrEnd(text, j + 1)

\* the position of the brace that closes an object, scanning from j; 0: none
RECURSIVE ObjEnd(_, _)
ObjEnd(text, j) ==
    IF j > Len(text) THEN 0
    ELSE IF text[j] = Quote
         THEN LET e == StrEnd(text, j + 1) IN IF e = 0 THEN 0 ELSE ObjEnd(text, e + 1)
    ELSE IF text[j] = "}" THEN j
    ELSE ObjEnd(text, j + 1)

\* the position of the last chunk of the JSON value that starts at i; 0: no value
ValueEnd(text, i) ==
    IF i > Len(text) THEN 0
    ELSE IF text[i] = Quote THEN StrEnd(text, i + 1)
    ELSE IF text[i] = "{" THEN ObjEnd(text, i + 1)
    ELSE IF text[i] \in {"[", "]", ",", ":", "}"} THEN 0
    ELSE i

\* the texts of the elements of a JSON array, scanning from the element at i
RECURSIVE SplitFrom(_, _, _)
SplitFrom(text, i, elts) ==
    LET e == ValueEnd(text, i) IN
    IF e = 0 \/ e >= Len(text) THEN [ ok |-> FALSE, elts |-> elts ]
    ELSE LET more == Append(elts, SubSeq(text, i, e)) IN
         IF e + 1 = Len(text) THEN [ ok |-> TRUE, elts |-> more ]
         ELSE IF text[e + 1] = "," THEN SplitFrom(text, e + 2, more)
         ELSE [ ok |-> FALSE, elts |-> more ]

ArrayElements(text) ==
    IF Len(text) < 2 \/ text[1] # "[" \/ text[Len(text)] # "]"
    THEN [ ok |-> FALSE, elts |-> << >> ]
    ELSE IF Len(text) = 2 THEN [ ok |-> TRUE, elts |-> << >> ]
    ELSE SplitFrom(text, 2, << >>)

\* serde_json reads a string: the characters between the quotes, unescaped
RECURSIVE Unescape(_)
Unescape(str) ==
    IF Len(str) = 0 THEN << >>
    ELSE IF Head(str) = Backslash /\ Len(str) >= 2
         THEN << str[2] >> \o Unescape(SubSeq(str, 3, Len(str)))
    ELSE << Head(str) >> \o Unescape(Tail(str))

\* an element deserialized as Cow<str>
DeStr(elt) ==
    IF Len(elt) >= 2 /\ elt[1] = Quote /\ StrEnd(elt, 2) = Len(elt)
    THEN [ ok |-> TRUE, v |-> Unescape(SubSeq(elt, 2, Len(elt) - 1)) ]
    ELSE [ ok |-> FALSE, v |-> << >> ]

\* an element deserialized as Option<Cow<str>>
DeOpt(elt) ==
    IF elt = << "null" >> THEN [ ok |-> TRUE, v |-> None ]
    ELSE LET r == DeStr(elt) IN
         [ ok |-> r.ok, v |-> IF r.ok THEN Some(r.v) ELSE None ]

\* the entries of an object, scanning from the key at i or the closing brace
RECURSIVE ParsePairs(_, _, _)
ParsePairs(elt, i, map) ==
    IF elt[i] = "}" THEN [ ok |-> i = Len(elt), v |-> map ]
    ELSE IF elt[i] # Quote THEN [ ok |-> FALSE, v |-> map ]
    ELSE LET ke == StrEnd(elt, i + 1) IN
         IF ke = 0 \/ ke + 2 > Len(elt) THEN [ ok |-> FALSE, v |-> map ]
         ELSE IF elt[ke + 1] # ":" \/ elt[ke + 2] # Quote THEN [ ok |-> FALSE, v |-> map ]
         ELSE LET ve == StrEnd(elt, ke + 3) IN
              IF ve = 0 \/ ve + 1 > Len(elt) THEN [ ok |-> FALSE, v |-> map ]
              ELSE LET k == Unescape(SubSeq(elt, i + 1, ke - 1))
                       v == Unescape(SubSeq(elt, ke + 3, ve - 1))
                       more == [ x \in DOMAIN map \cup {k} |->
                                   IF x = k THEN v ELSE map[x] ]
                   IN
                   IF elt[ve + 1] = "}" THEN ParsePairs(elt, ve + 1, more)
                   ELSE IF elt[ve + 1] = "," /\ ve + 2 <= Len(elt) /\ elt[ve + 2] = Quote
                        THEN ParsePairs(elt, ve + 2, more)
                   ELSE [ ok |-> FALSE, v |-> map ]

\* an element deserialized as Map
DeMap(elt) ==
    IF Len(elt) >= 2 /\ elt[1] = "{" /\ ObjEnd(elt, 2) = Len(elt)
    THEN ParsePairs(elt, 2, EmptyMap)
    ELSE [ ok |-> FALSE, v |-> EmptyMap ]

NoChannelMsg == [ join_reference |-> None, message_reference |-> None,
                  topic_name |-> << >>, event_name |-> << >>, payload |-> EmptyMap ]

DeOk(msg) == [ kind |-> "ok", at |-> 0, msg |-> msg ]
DeErr(kind, at) == [ kind |-> kind, at |-> at, msg |-> NoChannelMsg ]

\* SeqAccess::next_element: the next element of the sequence, None after the last
NextElementPadsWithNull(elts, k) ==
    IF k <= Len(elts) THEN Some(elts[k]) ELSE Some(<< "null" >>)
NextElement(elts, k) == IF k <= Len(elts) THEN Some(elts[k]) ELSE None

\* ChannelMsgVisitor::visit_seq on the elements the sequence yields; hint is
\* seq.size_hint()
VisitSeq(elts, hint) ==
    LET e1 == NextElement(elts, 1)
        e2 == NextElement(elts, 2)
        e3 == NextElement(elts, 3)
        e4 == NextElement(elts, 4)
        e5 == NextElement(elts, 5)
    IN
    IF Len(hint) # 0 /\ hint[1] # Arity THEN DeErr("invalid_length", hint[1])
    ELSE IF Len(e1) = 0 THEN DeErr("invalid_length", 0)
    ELSE IF ~DeOpt(e1[1]).ok THEN DeErr("invalid_type", 0)
    ELSE IF Len(e2) = 0 THEN DeErr("invalid_length", 1)
    ELSE IF ~DeOpt(e2[1]).ok THEN DeErr("invalid_type", 1)
    ELSE IF Len(e3) = 0 THEN DeErr("invalid_length", 2)
    ELSE IF ~DeStr(e3[1]).ok THEN DeErr("invalid_type", 2)
    ELSE IF Len(e4) = 0 THEN DeErr("invalid_length", 3)
    ELSE IF ~DeStr(e4[1]).ok THEN DeErr("invalid_type", 3)
    ELSE IF Len(e5) = 0 THEN DeErr("invalid_length", 4)
    ELSE IF ~DeMap(e5[1]).ok THEN DeErr("invalid_type", 4)
    ELSE DeOk([ join_reference    |-> DeOpt(e1[1]).v,
                message_reference |-> DeOpt(e2[1]).v,
                topic_name        |-> DeStr(e3[1]).v,
                event_name        |-> DeStr(e4[1]).v,
                payload           |-> DeMap(e5[1]).v ])

\* deserializer.deserialize_seq(visitor).  A deserializer that holds the whole
\* array (serde_json::from_value) gives the visitor its length as the hint; the
\* one that reads text (serde_json::from_str) gives no hint, and after visit_seq
\* it requires the array to end
DeserializeSeq(text, hinted) ==
    LET a == ArrayElements(text) IN
    IF ~a.ok THEN DeErr("syntax", 0)
    ELSE LET r == VisitSeq(a.elts, IF hinted THEN Some(Len(a.elts)) ELSE None) IN
         IF r.kind = "ok" /\ Len(a.elts) > Arity
         THEN DeErr("trailing_characters", Arity)
         ELSE r

(***************************************************************************)
(* The codec at work: serde_json::to_string and serde_json::from_str /     *)
(* from_value applied to messages and to wire texts, as the tests of       *)
(* message.rs do.                                                          *)
(***************************************************************************)
\* the variables of the Client
clientVars == << msg_id, sent, writer, reader, pc, cur, returned, wire, inbound,
                 allocs, lockOrder, delivered, since, tick, budget >>

\* a string literal and an array as they stand in a wire text
Quoted(chunks) == << Quote >> \o chunks \o << Quote >>

RECURSIVE Joined(_)
Joined(elts) ==
    IF Len(elts) = 0 THEN << >>
    ELSE Head(elts) \o (IF Len(elts) > 1 THEN << "," >> ELSE << >>) \o Joined(Tail(elts))

ArrayText(elts) == << "[" >> \o Joined(elts) \o << "]" >>

\* the messages given to the encoder
CodecRefs == { None, Some(IdToString(0)), Some(IdToString(10)) }
CodecStrs == { << "miami:weather" >>, << "say ", Quote, "hi", Quote, Backslash >> }
CodecMaps ==
    { EmptyMap,
      [ k \in { << "some" >> } |-> << "param" >> ],
      [ k \in { << "category" >>, << "a", Quote >> } |->
            IF k = << "category" >> THEN << "sharknado" >> ELSE << Backslash, "b" >> ] }

CodecMsgs ==
    [ join_reference : CodecRefs, message_reference : CodecRefs,
      topic_name : CodecStrs, event_name : CodecStrs, payload : CodecMaps ]

\* the elements of the wire texts given to the decoder, by position
RefTexts == { << "null" >>, Quoted(<< "0" >>), Quoted(<< "1", "0" >>) }
StrTexts == { Quoted(<< "miami:weather" >>),
              Quoted(<< "say ", Backslash, Quote, "hi", Backslash, Quote >>) }
MapTexts == { << "{", "}" >>,
              << "{" >> \o Quoted(<< "some" >>) \o << ":" >> \o Quoted(<< "param" >>)
                  \o << "}" >> }

\* the wire texts of five well-typed elements
WireTexts ==
    { ArrayText(<< jr, mr, topic, event, payload >>) :
        jr \in RefTexts, mr \in RefTexts, topic \in StrTexts, event \in StrTexts,
        payload \in MapTexts }

\* arrays of 0 .. MaxArrayLen elements: element i is well typed for position i
\* (for position i - 5, i - 10, ... beyond the fifth), or the first one is a number
ElementCycles ==
    { << << "null" >>, Quoted(<< "1" >>), Quoted(<< "miami:weather" >>),
         Quoted(<< "phx_leave" >>), << "{", "}" >> >>,
      << Quoted(<< "0" >>), Quoted(<< "0" >>), Quoted(<< "phoenix" >>),
         Quoted(<< "heartbeat" >>), << "{", "}" >> >>,
      << << "7" >>, Quoted(<< "1" >>), Quoted(<< "miami:weather" >>),
         Quoted(<< "phx_leave" >>), << "{", "}" >> >> }

ArrayOfLen(cycle, n) == ArrayText([ i \in 1..n |-> cycle[((i - 1) % Arity) + 1] ])

CodecInput(origin, hinted, msg, text, len, typed) ==
    [ fn |-> "codec", origin |-> origin, hinted |-> hinted, n |-> 0,
      msg |-> msg, text |-> text, len |-> len, typed |-> typed,
      res |-> DeErr("none", 0), out |-> << >> ]

CodecInputs ==
    { CodecInput("msg", hinted, msg, << >>, Arity, TRUE) :
        hinted \in BOOLEAN, msg \in CodecMsgs }
    \cup { CodecInput("text", hinted, NoChannelMsg, text, Arity, TRUE) :
        hinted \in BOOLEAN, text \in WireTexts }
    \cup { CodecInput("array", hinted, NoChannelMsg, ArrayOfLen(cycle, n), n,
                      n = 0 \/ cycle[1] # << "7" >>) :
        hinted \in BOOLEAN, cycle \in ElementCycles, n \in 0..MaxArrayLen }

\* serde_json::to_string(&msg): of the message given, or of the message decoded
ToString ==
    /\ pure.fn = "codec"
    /\ \/ pure.origin = "msg" /\ pure.n = 0
       \/ pure.origin # "msg" /\ pure.n = 1 /\ pure.res.kind = "ok"
    /\ pure' = [pure EXCEPT !.n = @ + 1,
                            !.out = Serialize(IF pure.origin = "msg"
                                              THEN pure.msg ELSE pure.res.msg)]
    /\ UNCHANGED clientVars

\* serde_json::from_str / from_value: of the text given, or of the text encoded
FromStr ==
    /\ pure.fn = "codec"
    /\ \/ pure.origin = "msg" /\ pure.n = 1
       \/ pure.origin # "msg" /\ pure.n = 0
    /\ pure' = [pure EXCEPT !.n = @ + 1,
                            !.res = DeserializeSeq(IF pure.origin = "msg"
                                                   THEN pure.out ELSE pure.text,
                                                   pure.hinted)]
    /\ UNCHANGED clientVars

InitCodec == InitOf(0, 0, CodecInputs)
NextCodec == ToString \/ FromStr
SpecCodec == InitCodec /\ [][NextCodec]_vars

(***************************************************************************)
(* Builder::new: the query of the URI gets the parameter vsn=2.0.0 unless  *)
(* it has a vsn parameter.  A query is a string, here the sequence of its  *)
(* chunks: names, values and the characters "=" and "&".  A URI is its     *)
(* path, its query (an Option) and the rest, which Builder::new keeps.     *)
(***************************************************************************)
VsnParam == << "vsn", "=", "2.0.0" >>

\* s.split('&'): the pieces of the string between the "&", empty ones included
RECURSIVE SplitAmp(_, _)
SplitAmp(str, piece) ==
    IF Len(str) = 0 THEN << piece >>
    ELSE IF Head(str) = "&" THEN << piece >> \o SplitAmp(Tail(str), << >>)
    ELSE SplitAmp(Tail(str), Append(piece, Head(str)))

\* s.starts_with("vsn=")
StartsWithVsn(param) == Len(param) >= 2 /\ param[1] = "vsn" /\ param[2] = "="

\* uri.query().is_some_and(|s| s.split('&').any(|s| s.starts_with("vsn=")))
HasVsnNever(query) == FALSE
HasVsn(query) ==
    /\ Len(query) # 0
    /\ LET params == SplitAmp(query[1], << >>) IN
       \E i \in 1..Len(params) : StartsWithVsn(params[i])

\* Builder::new, the URI of the request it builds
BuilderNew(uri) ==
    IF HasVsn(uri.query) THEN uri
    ELSE IF Len(uri.query) # 0 /\ Len(uri.query[1]) # 0
         THEN [uri EXCEPT !.query = Some(uri.query[1] \o << "&" >> \o VsnParam)]
         ELSE [uri EXCEPT !.query = Some(VsnParam)]

\* the URIs given to the builder: no query, or a query of up to MaxUriParams of
\* these parameters
UriParams == { << "foo", "=", "bar" >>, << "vsn", "=", "1.0.0" >>, << "vsn" >>,
               << "xvsn", "=", "2.0.0" >>, << >> }

RECURSIVE JoinedAmp(_)
JoinedAmp(params) ==
    IF Len(params) = 0 THEN << >>
    ELSE Head(params) \o (IF Len(params) > 1 THEN << "&" >> ELSE << >>)
         \o JoinedAmp(Tail(params))

UriInputs ==
    LET given(params, query) ==
            [ fn |-> "uri", n |-> 0, params |-> params,
              given |-> [ path |-> "/socket/websocket", query |-> query ],
              uri |-> [ path |-> "/socket/websocket", query |-> query ] ]
    IN { given(<< >>, None) }
       \cup { given(params, Some(JoinedAmp(params))) :
                params \in UNION { [1..n -> UriParams] : n \in 0..MaxUriParams } }

\* Builder::new on the URI given, and again on the URI it built
BuilderNewCall ==
    /\ pure.fn = "uri"
    /\ pure.n < 2
    /\ pure' = [pure EXCEPT !.n = @ + 1, !.uri = BuilderNew(pure.uri)]
    /\ UNCHANGED clientVars

InitUri == InitOf(0, 0, UriInputs)
NextUri == BuilderNewCall
SpecUri == InitUri /\ [][NextUri]_vars

(***************************************************************************)
(* Definitions the properties share.                                       *)
(***************************************************************************)
\* the tasks inside write_msg with the lock of the write half taken
Writing == { t \in Tasks : pc[t] = "send" }

\* the receivers inside next_msg with the lock of the read half taken
InNextMsg(r) == pc[r] \in {"select", "hb_id", "lock", "send", "store"}

\* the wire cut into frames of Len(FrameParts) pieces: the pieces of frame k
NFrames == (Len(wire) + Len(FrameParts) - 1) \div Len(FrameParts)
PieceOf(k, j) == (k - 1) * Len(FrameParts) + j

\* the allocation each frame on the wire was written for, in wire order
WireSeqs == [ k \in 1..NFrames |-> wire[PieceOf(k, 1)].seq ]
OnWire(seq) == \E i \in 1..Len(wire) : wire[i].seq = seq

\* the last tick has been dealt with: its receiver is out of the heartbeat
TickDone == tick.n > 0 /\ pc[tick.by] \in {"idle", "rlock", "select"}

\* str::parse::<usize>: the number a string of decimal digits denotes
DigitValue(c) == (CHOOSE d \in 1..10 : Digit[d] = c) - 1

RECURSIVE DecimalValue(_)
DecimalValue(str) ==
    IF Len(str) = 0 THEN 0
    ELSE 10 * DecimalValue(SubSeq(str, 1, Len(str) - 1)) + DigitValue(str[Len(str)])

(***************************************************************************)
(* C1.  At most one task writes to the write half at a time, and the wire  *)
(* is a sequence of whole frames in the order in which their writers took  *)
(* the lock of the write half: piece j of every frame is followed by piece *)
(* j+1 of the same frame; only the frame of the task now holding the lock  *)
(* may still be incomplete.                                                *)
(***************************************************************************)
C1_WholeFramesInLockOrder ==
    /\ Cardinality(Writing) <= 1
    /\ \A t \in Writing : writer = t
    /\ \A k \in 1..NFrames :
         \A j \in 1..Len(FrameParts) :
            IF PieceOf(k, j) <= Len(wire)
            THEN /\ wire[PieceOf(k, j)].part = FrameParts[j]
                 /\ wire[PieceOf(k, j)].seq = wire[PieceOf(k, 1)].seq
                 /\ wire[PieceOf(k, j)].msg = wire[PieceOf(k, 1)].msg
            ELSE /\ k = NFrames
                 /\ \E t \in Writing : /\ cur[t].seq = wire[PieceOf(k, 1)].seq
                                       /\ cur[t].part < j
    /\ WireSeqs = SelectSeq(lockOrder, OnWire)

\* two callers and the heartbeat compete for the write half: one is in the middle
\* of its frame, the heartbeat waits for the lock, a whole frame is on the wire
C1_Witness ==
    /\ \E w \in Writers : pc[w] = "send"
    /\ pc["r1"] = "lock"
    /\ Len(wire) = Len(FrameParts) + 1

(***************************************************************************)
(* C2.  When a join, leave or send returned Ok between the check of the    *)
(* previous tick and the check of a tick, that check finds the flag set,   *)
(* clears it, writes no heartbeat and recv goes on waiting.                *)
(***************************************************************************)
C2_ReturnedCallSuppressesHeartbeat ==
    (tick.n > 0 /\ tick.ret) =>
        /\ tick.flagWas
        /\ ~tick.flagLeft
        /\ tick.waits
        /\ tick.issued = 0
        /\ tick.written = 0
        /\ ~tick.failed

\* a second tick, with a call that returned since the first one
C2_Witness == tick.n >= 2 /\ tick.ret /\ tick.flagWas /\ Len(wire) >= Len(FrameParts)

(***************************************************************************)
(* C3.  A tick whose check leads to a heartbeat is a tick before which no  *)
(* join, leave or send frame completed its transport write since the       *)
(* check of the previous tick.                                             *)
(***************************************************************************)
C3_HeartbeatOnlyWithoutTraffic ==
    (tick.n > 0 /\ ~tick.flagWas) => ~tick.wrote

\* the pieces on the wire of the heartbeat the last tick led to
HeartbeatPieces ==
    { i \in 1..Len(wire) : wire[i].seq = tick.seq /\ wire[i].op = "heartbeat" }

(***************************************************************************)
(* C4.  Every tick checked has one of two outcomes.  Either the flag was   *)
(* set: it is cleared and no heartbeat is allocated or written.  Or the    *)
(* flag was clear: it stays clear at the check, one heartbeat id is        *)
(* allocated and one write of the heartbeat frame is made, which puts one  *)
(* heartbeat frame on the wire, or none when the transport write fails.    *)
(***************************************************************************)
C4_TickOutcome ==
    tick.n > 0 =>
        /\ tick.flagLeft = FALSE
        /\ tick.waits = tick.flagWas
        /\ tick.flagWas =>
              tick.issued = 0 /\ tick.written = 0 /\ ~tick.failed
        /\ ~tick.flagWas =>
              /\ tick.issued <= 1
              /\ tick.written <= tick.issued
              /\ tick.failed => tick.written = 0 /\ tick.issued = 1
              /\ TickDone => /\ tick.issued = 1
                             /\ tick.written = (IF tick.failed THEN 0 ELSE 1)
                             /\ Cardinality(HeartbeatPieces) =
                                   (IF tick.failed THEN 0 ELSE Len(FrameParts))

\* a tick found the flag clear and its heartbeat frame is on the wire
C4_Witness ==
    /\ TickDone
    /\ tick.n >= 2
    /\ ~tick.flagWas
    /\ tick.written = 1
    /\ Cardinality(HeartbeatPieces) = Len(FrameParts)

\* the claim as stated: a tick dealt with either found the flag set and wrote
\* nothing, or found it clear and wrote exactly one heartbeat frame
C4_FrameWrittenOrAbsorbed ==
    TickDone =>
        \/ tick.flagWas /\ ~tick.flagLeft /\ tick.written = 0
        \/ ~tick.flagWas /\ tick.written = 1

(***************************************************************************)
(* C5.  When no frame was written between the checks of two consecutive    *)
(* ticks, the second check finds the flag clear and goes on to the         *)
(* heartbeat.                                                              *)
(***************************************************************************)
C5_SilenceForcesHeartbeat ==
    (tick.n >= 2 /\ ~tick.any) => (~tick.flagWas /\ ~tick.waits)

(***************************************************************************)
(* C6.  While fewer ids have been allocated than the counter has values,   *)
(* every id allocated is greater than every id allocated before it: ids    *)
(* are unique and increase in allocation order.                            *)
(***************************************************************************)
C6_IdsUniqueIncreasing ==
    \A i, j \in 1..Len(allocs) :
        (i < j /\ j <= IdRange) => allocs[i] < allocs[j]

\* both callers and the heartbeat hold an id they allocated and have not written
C6_Witness ==
    /\ pc["w1"] = "lock"
    /\ pc["w2"] = "lock"
    /\ pc["r1"] = "lock"
    /\ Len(allocs) = 3

(***************************************************************************)
(* C7.  At most one recv is inside next_msg: a receiver that waits at the  *)
(* select, checks a tick or writes a heartbeat holds the lock of the read  *)
(* half, and while it does a second recv cannot take the lock.             *)
(***************************************************************************)
C7_OneReceiveInFlight ==
    /\ Cardinality({ r \in Receivers : InNextMsg(r) }) <= 1
    /\ \A r \in Receivers : InNextMsg(r) => reader = r
    /\ \A r \in Receivers :
         (pc[r] = "rlock" /\ \E o \in Receivers \ {r} : InNextMsg(o))
            => ~ENABLED ReadLock(r)
    /\ tick.n > 0 /\ ~TickDone => reader = tick.by

\* a second recv waits for the lock while the first, which has seen a tick, is at
\* the select and a frame has arrived
C7_Witness ==
    /\ pc["r1"] = "select"
    /\ pc["r2"] = "rlock"
    /\ tick.n > 0
    /\ tick.by = "r1"
    /\ inbound # << >>

(***************************************************************************)
(* C8.  The two halves do not block each other.  Whatever task holds the   *)
(* write half, a recv at the select can return an item that has arrived;   *)
(* whatever task holds the read half, a join, leave or send can take the   *)
(* free write half, write its frame and return.                            *)
(***************************************************************************)
C8_HalvesIndependent ==
    /\ \A r \in Receivers :
         (pc[r] = "select" /\ inbound # << >>) => ENABLED RecvNext(r)
    /\ \A w \in Writers :
         /\ (pc[w] = "lock" /\ writer = Unlocked) => ENABLED WriteLock(w)
         /\ pc[w] = "send" => ENABLED WritePiece(w)
         /\ pc[w] = "store" => ENABLED WriteStore(w)

\* a recv has just returned a frame while a caller is in the middle of its write
\* and the other recv has taken the read half
C8_Witness ==
    /\ returned.task \in Receivers
    /\ returned.kind = "message"
    /\ pc[returned.task] = "idle"
    /\ \E w \in Writers : pc[w] = "send" /\ writer = w
    /\ \E r \in Receivers : pc[r] = "select" /\ reader = r

(***************************************************************************)
(* C9.  Every frame on the wire carries as message_reference the decimal   *)
(* string of the id allocated for it; join_reference is that same string   *)
(* on the phx_join frames of join / join_with_payload and absent on the    *)
(* phx_leave, send and heartbeat frames; an Ok result is the id of the     *)
(* frame the call wrote.                                                   *)
(***************************************************************************)
C9_References ==
    /\ \A i \in 1..Len(wire) :
         LET e == wire[i]
             id == allocs[e.seq]
         IN
         /\ e.msg.message_reference = Some(IdToString(id))
         /\ DecimalValue(e.msg.message_reference[1]) = id
         /\ e.op = "join" <=> e.msg.join_reference # None
         /\ e.op = "join" => /\ e.msg.join_reference = e.msg.message_reference
                             /\ e.msg.event_name = "phx_join"
         /\ e.op = "leave" => e.msg.event_name = "phx_leave"
         /\ e.op = "send" => e.msg.event_name \in Events
         /\ e.op = "heartbeat" => /\ e.msg.topic_name = "phoenix"
                                  /\ e.msg.event_name = "heartbeat"
         /\ e.op \in {"join", "leave", "send", "heartbeat"}
    /\ returned.kind = "ok" =>
         /\ allocs[returned.seq] = returned.id
         /\ \E i \in 1..Len(wire) :
              /\ wire[i].seq = returned.seq
              /\ wire[i].msg.message_reference = Some(IdToString(returned.id))

\* a join, a leave, a send and a heartbeat frame are on the wire
C9_Witness ==
    \A op \in {"join", "leave", "send", "heartbeat"} :
        \E i \in 1..Len(wire) : wire[i].op = op /\ wire[i].part = FrameParts[Len(FrameParts)]

(***************************************************************************)
(* C10.  On a connection created by Client::new the k-th allocation,       *)
(* k = 0, 1, 2, ..., whoever makes it, returns k modulo the range of the   *)
(* counter: after the largest value the next id is 0.                      *)
(***************************************************************************)
C10_KthAllocationIsK ==
    /\ \A k \in 1..Len(allocs) : allocs[k] = (k - 1) % IdRange
    /\ msg_id = Len(allocs) % IdRange

\* the counter has wrapped: the allocation after the largest id returned 0, and
\* calls and a heartbeat share the counter
C10_Witness ==
    /\ Len(allocs) = IdRange + 1
    /\ allocs[IdRange] = IdRange - 1
    /\ allocs[IdRange + 1] = 0
    /\ \E i \in 1..Len(wire) : wire[i].op = "heartbeat"
    /\ \E i \in 1..Len(wire) : wire[i].op = "leave"

(***************************************************************************)
(* C11.  A recv that returned was resolved by an item of the read half or  *)
(* by a transport error, never by a tick alone, and what it returned       *)
(* follows from the item: the end of the stream gives Disconnected, a read *)
(* error RecvError, a frame that is not a Text frame MessageTypeError, a   *)
(* Text frame that does not decode DeserializeError, and a Text frame that *)
(* decodes the message.                                                    *)
(***************************************************************************)
C11_RecvOutcomes ==
    returned.task \in Receivers =>
        /\ returned.frame = "none" => returned.kind = "send_err"
        /\ returned.frame = "end" => returned.kind = "disconnected"
        /\ returned.frame = "error" => returned.kind = "recv_err"
        /\ returned.frame \in FrameKinds \ {"end", "error"} =>
               IF ~IsTextFrame(returned.frame) THEN returned.kind = "type_err"
               ELSE IF ~FromStrOk(returned.frame) THEN returned.kind = "deser_err"
               ELSE returned.kind = "message"

(***************************************************************************)
(* C12.  When the transport write of a join, leave or send fails, the call *)
(* returns Error::Send with the join_reference, message_reference, topic   *)
(* and event of the message it built for its id and with the payload       *)
(* dropped; and no step of the call, from its start to the failed write,   *)
(* changes the sent flag.                                                  *)
(***************************************************************************)
C12_FailedWriteReturnsSendError ==
    [][ \A w \in Writers :
          /\ (pc[w] \in {"idle", "lock"} /\ pc'[w] # pc[w]) => sent' = sent
          /\ (pc[w] = "lock" /\ pc'[w] = "idle") =>
                /\ returned'.task = w
                /\ returned'.kind = "send_err"
                /\ returned'.msg.message_reference = Some(IdToString(cur[w].id))
                /\ returned'.msg.join_reference =
                       (IF cur[w].op = "join" THEN Some(IdToString(cur[w].id)) ELSE None)
                /\ returned'.msg.topic_name \in Topics
                /\ returned'.msg.event_name \in
                       (CASE cur[w].op = "join"  -> {"phx_join"}
                          [] cur[w].op = "leave" -> {"phx_leave"}
                          [] OTHER               -> Events)
                /\ returned'.msg.payload = "()"
                /\ wire' = wire ]_vars

\* a join failed after an earlier call had set the flag: the flag is still set
C12_Witness ==
    /\ returned.kind = "send_err"
    /\ returned.task \in Writers
    /\ returned.msg.join_reference = Some(IdToString(1))
    /\ returned.msg.payload = "()"
    /\ sent = TRUE

(***************************************************************************)
(* C13.  An error leaves the Client usable.  A task that is not inside a   *)
(* call holds neither lock, and a lock is held only by a task that is      *)
(* inside write_msg or next_msg.  Whatever the calls before returned, a    *)
(* caller can start a join, a receiver can start a recv, a task waiting    *)
(* for a free lock can take it and a recv at the select can take the item  *)
(* the read half holds.  No allocation goes to the transport twice: a      *)
(* failed write is not tried again.                                        *)
(***************************************************************************)
C13_ErrorsLeaveClientUsable ==
    /\ \A t \in Tasks : pc[t] = "idle" => (writer # t /\ reader # t)
    /\ writer # Unlocked => pc[writer] = "send"
    /\ reader # Unlocked => InNextMsg(reader)
    /\ \A w \in {"w1"}, topic \in Topics :
          (pc[w] = "idle" /\ budget.events > 0) => ENABLED Join(w, topic)
    /\ \A r \in {"r1"} :
          /\ pc[r] = "idle" => ENABLED RecvCall(r)
          /\ (pc[r] = "rlock" /\ reader = Unlocked) => ENABLED ReadLock(r)
          /\ (pc[r] = "select" /\ inbound # << >>) => ENABLED RecvNext(r)
    /\ \A t \in {"w1", "r1"} :
          (pc[t] = "lock" /\ writer = Unlocked) => ENABLED WriteLock(t)
    /\ \A i, j \in 1..Len(lockOrder) : lockOrder[i] = lockOrder[j] => i = j

\* a write failed and a later write went out; a recv returned a read error and
\* the receiver is inside its next recv
C13_Witness ==
    /\ \E i, j \in 1..Len(lockOrder) :
          i < j /\ ~OnWire(lockOrder[i]) /\ OnWire(lockOrder[j])
    /\ returned.kind = "recv_err"
    /\ pc[returned.task] = "select"
    /\ reader = returned.task

(***************************************************************************)
(* C14.  The codec round trip.  A message that is encoded and decoded      *)
(* again is the same message, whether its references are present or absent *)
(* and whatever its payload; the encoded text is the array of its fields   *)
(* in the order join_reference, message_reference, topic, event, payload.  *)
(* A wire text of five well-typed elements that is decoded and encoded     *)
(* again is the same text.                                                 *)
(***************************************************************************)
C14_RoundTrip ==
    pure.fn = "codec" =>
        /\ (pure.origin = "msg" /\ pure.n >= 1) =>
              pure.out = ArrayText(<< SerOpt(pure.msg.join_reference),
                                      SerOpt(pure.msg.message_reference),
                                      SerStr(pure.msg.topic_name),
                                      SerStr(pure.msg.event_name),
                                      SerMap(pure.msg.payload) >>)
        /\ (pure.origin = "msg" /\ pure.n = 2) =>
              (pure.res.kind = "ok" /\ pure.res.msg = pure.msg)
        /\ (pure.origin = "text" /\ pure.n >= 1) => pure.res.kind = "ok"
        /\ (pure.origin = "text" /\ pure.n = 2) => pure.out = pure.text

\* a message without join_reference, with characters to escape and a map of two
\* entries has made the round trip; so has a wire text with an escaped string
C14_Witness ==
    /\ pure.fn = "codec"
    /\ pure.n = 2
    /\ \/ /\ pure.origin = "msg"
          /\ pure.msg.join_reference = None
          /\ pure.msg.message_reference # None
          /\ Quote \in { pure.msg.topic_name[i] : i \in 1..Len(pure.msg.topic_name) }
          /\ Cardinality(DOMAIN pure.msg.payload) = 2
          /\ pure.res.msg = pure.msg
       \/ /\ pure.origin = "text"
          /\ Backslash \in { pure.text[i] : i \in 1..Len(pure.text) }
          /\ pure.res.msg.join_reference # None
          /\ pure.out = pure.text

(***************************************************************************)
(* C15.  Decoding an array whose length is not 5 fails, for the lengths 0  *)
(* to MaxArrayLen: the decoder neither pads a short array nor cuts a long  *)
(* one.  When the elements have the types of their positions, a short      *)
(* array fails with invalid_length at the position of the first missing    *)
(* element; a long array fails with invalid_length of its length when the  *)
(* deserializer gives the length as a hint, and with the trailing          *)
(* characters error of the text deserializer when it gives none.           *)
(***************************************************************************)
C15_ArityRejected ==
    (pure.fn = "codec" /\ pure.origin = "array" /\ pure.n >= 1) =>
        /\ pure.len # Arity => (pure.res.kind # "ok" /\ pure.n = 1)
        /\ (pure.typed /\ pure.len < Arity) =>
              pure.res = DeErr("invalid_length", pure.len)
        /\ (pure.typed /\ pure.len > Arity) =>
              pure.res = (IF pure.hinted THEN DeErr("invalid_length", pure.len)
                          ELSE DeErr("trailing_characters", Arity))
        /\ (pure.typed /\ pure.len = Arity) => pure.res.kind = "ok"

\* an array of 3 well-typed elements has been rejected by the text deserializer
C15_Witness ==
    /\ pure.fn = "codec"
    /\ pure.origin = "array"
    /\ pure.n = 1
    /\ pure.typed
    /\ ~pure.hinted
    /\ pure.len = 3
    /\ pure.res = DeErr("invalid_length", 3)

\* the claim as made: every array of another length fails with invalid_length
C15_ArityErrorForEveryLength ==
    (pure.fn = "codec" /\ pure.origin = "array" /\ pure.n >= 1 /\ pure.typed
        /\ pure.len # Arity) =>
        pure.res.kind = "invalid_length"

(***************************************************************************)
(* C16.  Builder::new normalises the query.  A URI without query or with   *)
(* an empty query gets exactly the query vsn=2.0.0.  A URI whose query is  *)
(* not empty and has no parameter that starts with "vsn=" gets &vsn=2.0.0  *)
(* after its query: the parameters it had stay, in their order, and        *)
(* vsn=2.0.0 is the last.  A URI with a parameter that starts with "vsn="  *)
(* stays as it is.  The path stays, and a second normalisation changes     *)
(* nothing.                                                                *)
(***************************************************************************)
C16_QueryNormalised ==
    (pure.fn = "uri" /\ pure.n >= 1) =>
        LET given == pure.given.query
            hasVsn == \E i \in 1..Len(pure.params) :
                         /\ Len(pure.params[i]) >= 2
                         /\ pure.params[i][1] = "vsn"
                         /\ pure.params[i][2] = "="
        IN
        /\ pure.uri.path = pure.given.path
        /\ (Len(given) = 0 \/ given = Some(<< >>)) => pure.uri.query = Some(VsnParam)
        /\ (Len(given) # 0 /\ given # Some(<< >>) /\ ~hasVsn) =>
              /\ pure.uri.query = Some(given[1] \o << "&" >> \o VsnParam)
              /\ SplitAmp(pure.uri.query[1], << >>) = Append(pure.params, VsnParam)
        /\ hasVsn => pure.uri = pure.given
        /\ pure.n = 2 => pure.uri = BuilderNew(pure.given)

\* foo=bar became foo=bar&vsn=2.0.0 and stayed so the second time
C16_Witness ==
    /\ pure.fn = "uri"
    /\ pure.n = 2
    /\ pure.params = << << "foo", "=", "bar" >> >>
    /\ pure.uri.query = Some(<< "foo", "=", "bar", "&", "vsn", "=", "2.0.0" >>)

(***************************************************************************)
(* C17.  Ids are allocated outside the lock of the write half, and the     *)
(* lock is not granted in the order of the ids: a task that has its id and *)
(* waits for the lock does not hold it, and when the lock is free every    *)
(* waiting task can take it, also one whose id was allocated after the id  *)
(* of another waiting task.  So a frame with a smaller id can be written   *)
(* after a frame with a larger id (the witness).                           *)
(***************************************************************************)
C17_LockNotInIdOrder ==
    /\ \A t \in Tasks : pc[t] = "lock" => (writer # t /\ cur[t].seq <= Len(allocs))
    /\ \A t, u \in {"w1", "w2", "r1"} :
          (pc[t] = "lock" /\ pc[u] = "lock" /\ cur[t].seq > cur[u].seq
              /\ writer = Unlocked) => ENABLED WriteLock(t)

\* two whole frames of the callers are on the wire, the larger id first
C17_Witness ==
    \E k1, k2 \in 1..NFrames :
        /\ k1 < k2
        /\ Len(wire) >= PieceOf(k2, Len(FrameParts))
        /\ wire[PieceOf(k1, 1)].op \in {"join", "leave", "send"}
        /\ wire[PieceOf(k2, 1)].op \in {"join", "leave", "send"}
        /\ DecimalValue(wire[PieceOf(k1, 1)].msg.message_reference[1])
              > DecimalValue(wire[PieceOf(k2, 1)].msg.message_reference[1])
        /\ wire[PieceOf(k1, 1)].seq > wire[PieceOf(k2, 1)].seq

(***************************************************************************)
(* C18.  Ticks and heartbeats neither drop, repeat nor reorder the items   *)
(* of the read half: the items the recv calls have taken are the first     *)
(* items that arrived, in the order of their arrival and each once; the    *)
(* items the read half still holds are the ones that follow, in order; and *)
(* the recv that returned last returned the last item taken.               *)
(***************************************************************************)
C18_InboundInArrivalOrder ==
    /\ delivered = [ i \in 1..Len(delivered) |-> i ]
    /\ \A i \in 1..Len(inbound) : inbound[i].n = Len(delivered) + i
    /\ (returned.task \in Receivers /\ returned.frame \notin {"none", "end"}) =>
          returned.item = Len(delivered)
    /\ \A r \in Receivers : pc[r] \in {"hb_id", "lock", "send", "store"} => reader = r

\* two ticks fired, one of them led to a heartbeat, and two recv calls returned
\* the two items in order
C18_Witness ==
    /\ tick.n = 2
    /\ \E i \in 1..Len(wire) : wire[i].op = "heartbeat"
    /\ delivered = << 1, 2 >>
    /\ returned.kind = "message"
    /\ returned.item = 2

(***************************************************************************)
(* C19.  The life of the sent flag.  The step with which a successful      *)
(* write returns (to the caller of join, leave or send, or to the loop of  *)
(* next_msg for a heartbeat) leaves the flag true.  The flag goes from     *)
(* true to false only in the compare_exchange of a tick, done by the       *)
(* receiver at the select.  No step of a join, leave or send, no failed    *)
(* write and no return of recv changes it to false.                        *)
(***************************************************************************)
C19_SentFlagLifecycle ==
    [][ /\ \A t \in Tasks : (pc[t] = "store" /\ pc'[t] # "store") => sent' = TRUE
        /\ (returned' # returned /\ returned'.kind = "ok") => sent' = TRUE
        /\ (sent = TRUE /\ sent' = FALSE) =>
              /\ tick'.n = tick.n + 1
              /\ tick'.flagWas = TRUE
              /\ pc[tick'.by] = "select"
              /\ pc'[tick'.by] = "select"
              /\ returned' = returned
              /\ wire' = wire
        /\ returned' # returned => (sent = TRUE => sent' = TRUE) ]_vars

\* the flag, set by a join, is still set after a later write failed and a recv
\* returned a read error
C19_Witness ==
    /\ sent = TRUE
    /\ returned.kind = "recv_err"
    /\ \E i \in 1..Len(lockOrder) : ~OnWire(lockOrder[i])
    /\ \E i \in 1..Len(wire) : wire[i].op = "join"
    /\ tick.n = 0

(***************************************************************************)
(* C20.  The locks are taken in one order, the read half before the write  *)
(* half: the task that holds the write half is inside the transport send   *)
(* and waits for no lock; a task that waits for the read half holds no     *)
(* lock; only a receiver inside next_msg holds both, and it took the read  *)
(* half first.  Under the fair scheduler and with transport writes that    *)
(* complete, every join, leave or send that was called returns.            *)
(***************************************************************************)
C20_LockOrderAndProgress ==
    /\ [](/\ writer # Unlocked => pc[writer] = "send"
          /\ \A t \in Tasks : pc[t] = "rlock" => (writer # t /\ reader # t)
          /\ \A r \in Receivers : pc[r] \in {"lock", "send"} => reader = r
          /\ \A w \in Writers : reader # w)
    /\ \A w \in {"w1", "w2"} : (pc[w] # "idle") ~> (pc[w] = "idle")

\* a caller has its id and waits for the write half while the heartbeat of the
\* receiver, which holds the read half, is being written
C20_Witness ==
    /\ writer = "r1"
    /\ reader = "r1"
    /\ pc["r1"] = "send"
    /\ pc["w1"] = "lock"

\* no join, leave or send has put a piece on the wire and none is under way
NoApplicationTraffic ==
    /\ \A w \in Writers : pc[w] = "idle"
    /\ \A i \in 1..Len(wire) : wire[i].op = "heartbeat"

(***************************************************************************)
(* C21.  The write of a heartbeat sets the sent flag like any other write: *)
(* the check of the tick that follows a tick whose heartbeat frame was     *)
(* written finds the flag set, clears it and writes nothing, whatever the  *)
(* callers did in between.  Without any join, leave or send the checks     *)
(* alternate: the first tick finds the flag clear, and every later tick    *)
(* finds it set exactly when the heartbeat of the tick before it was       *)
(* written, so heartbeats are never written on two ticks in a row.         *)
(***************************************************************************)
C21_HeartbeatEverySecondTick ==
    [][ tick'.n = tick.n + 1 =>
          /\ tick.written > 0 =>
                /\ sent = TRUE
                /\ tick'.flagWas
                /\ tick'.waits
                /\ sent' = FALSE
                /\ wire' = wire
                /\ allocs' = allocs
          /\ (NoApplicationTraffic /\ tick.n = 0) => ~tick'.flagWas
          /\ (NoApplicationTraffic /\ tick.n > 0) =>
                (tick'.flagWas <=> tick.written > 0) ]_vars

\* without any call, the first and the third tick wrote a heartbeat each and the
\* second and the fourth wrote nothing
C21_Witness ==
    /\ NoApplicationTraffic
    /\ tick.n = 4
    /\ tick.flagWas
    /\ tick.waits
    /\ Len(allocs) = 2
    /\ Len(wire) = 2 * Len(FrameParts)

\* the pieces of heartbeat frames on the wire
HeartbeatsOnWire == { i \in 1..Len(wire) : wire[i].op = "heartbeat" }

(***************************************************************************)
(* C22.  The interval is polled, the sent flag is cleared, heartbeat ids   *)
(* are allocated and heartbeat frames are written only by the receiver     *)
(* that holds the lock of the read half inside its recv call.  When no     *)
(* task holds the read half, and so whenever no recv is under way, no step *)
(* observes a tick, clears the flag or writes a piece of a heartbeat.      *)
(***************************************************************************)
C22_HeartbeatOnlyInsideRecv ==
    [][ /\ ( \/ tick'.n # tick.n
             \/ (sent = TRUE /\ sent' = FALSE)
             \/ HeartbeatsOnWire' # HeartbeatsOnWire
             \/ \E t \in Tasks : cur'[t].op = "heartbeat" /\ cur[t].op # "heartbeat" )
           => \E r \in Receivers :
                 /\ reader = r
                 /\ reader' = r
                 /\ pc[r] \in {"select", "hb_id", "lock", "send"}
                 /\ pc'[r] # pc[r] \/ tick'.by = r
                 /\ \A t \in Tasks \ {r} : pc'[t] = pc[t]
        /\ (\A r \in Receivers : pc[r] = "idle") => reader = Unlocked
        /\ reader = Unlocked =>
              /\ tick'.n = tick.n
              /\ sent = TRUE => sent' = TRUE
              /\ HeartbeatsOnWire' = HeartbeatsOnWire
              /\ msg_id' # msg_id => \E w \in Writers : cur'[w].op # "heartbeat"
                                                        /\ pc[w] = "idle" ]_vars

\* no recv is under way: the last one wrote a heartbeat at its tick and returned a
\* message, and the flag the heartbeat set is still set
C22_Witness ==
    /\ \A r \in Receivers : pc[r] = "idle"
    /\ reader = Unlocked
    /\ sent = TRUE
    /\ tick.n >= 1
    /\ tick.written = 1
    /\ HeartbeatsOnWire # {}
    /\ returned.kind = "message"
    /\ budget.events > 0

\* this step is the return of a recv call whose heartbeat write failed
HeartbeatFailureReturns ==
    /\ returned' # returned
    /\ returned'.kind = "send_err"
    /\ returned'.task \in Receivers

\* what that return is and what it leaves: the SendError holds the heartbeat frame
\* without its payload, the read half is released and keeps its items
HeartbeatFailureOutcome ==
    /\ returned'.msg = IntoErr(HeartbeatMsg(returned'.id))
    /\ returned'.msg.event_name = "heartbeat"
    /\ returned'.item = 0
    /\ reader = returned'.task
    /\ reader' = Unlocked
    /\ pc'[returned'.task] = "idle"
    /\ inbound' = inbound
    /\ delivered' = delivered
    /\ wire' = wire

\* this step is the return of the recv call that follows one whose heartbeat write
\* failed
ReturnAfterHeartbeatFailure ==
    /\ returned.kind = "send_err"
    /\ returned.task \in Receivers
    /\ returned' # returned
    /\ returned'.task \in Receivers

\* this step returns the earliest item no recv call has taken yet
ReturnsEarliestItem ==
    /\ returned'.kind \in {"message", "recv_err", "disconnected"}
    /\ inbound # << >>
    /\ returned'.item = Head(inbound).n
    /\ returned'.item = Len(delivered) + 1

(***************************************************************************)
(* C23.  When the write of the heartbeat made inside recv fails, that recv *)
(* call returns the SendError holding the heartbeat frame, releases the    *)
(* lock of the read half and takes no item from the read half.  The recv   *)
(* call that follows either returns the earliest item not yet taken, the   *)
(* one that had arrived or arrives later, or fails on its own heartbeat in *)
(* the same way and again takes nothing.                                   *)
(***************************************************************************)
C23_HeartbeatFailureKeepsInbound ==
    [][ /\ HeartbeatFailureReturns => HeartbeatFailureOutcome
        /\ ReturnAfterHeartbeatFailure =>
              \/ ReturnsEarliestItem
              \/ HeartbeatFailureReturns /\ HeartbeatFailureOutcome ]_vars

\* a recv call returned the frame that was waiting on the read half when the
\* heartbeat write of the call before it failed
C23_Witness ==
    /\ returned.kind = "message"
    /\ returned.item = 1
    /\ delivered = << 1 >>
    /\ tick.n = 1
    /\ tick.failed
    /\ wire = << >>
    /\ Len(lockOrder) = 1

\* the claim as stated: the recv call that follows the failed one returns the frame
\* that is waiting on the read half
C23_NextRecvReturnsFrame ==
    [][ /\ HeartbeatFailureReturns => HeartbeatFailureOutcome
        /\ (ReturnAfterHeartbeatFailure /\ inbound # << >>) => ReturnsEarliestItem ]_vars

====
